---- MODULE Spec2Model ----
(***************************************************************************)
(* A model of pydrogen (src/pydrogen/pydrogen.py): the fold engine         *)
(* Pydrogen.interpret / interprets / attempt, the lazy dual view Subtree,  *)
(* the default handlers, the example interpretations, and the result       *)
(* carrier Function with decorator stacking (Pydrogen.process).            *)
(***************************************************************************)
EXTENDS Integers, Sequences, FiniteSets, TLC

Min(a, b) == IF a < b THEN a ELSE b

(***************************************************************************)
(* Python values.  Every value has the same four fields so that any two    *)
(* values can be compared; t is the Python type.                           *)
(***************************************************************************)
PyNone == [t |-> "None", n |-> 0, s |-> "", items |-> <<>>]
PyInt(n) == [t |-> "int", n |-> n, s |-> "", items |-> <<>>]
PyStr(s) == [t |-> "str", n |-> 0, s |-> s, items |-> <<>>]
PyTuple(items) == [t |-> "tuple", n |-> 0, s |-> "", items |-> items]
PyList(items) == [t |-> "list", n |-> 0, s |-> "", items |-> items]
\* The empty dict {} that process passes as the initial context.
PyDict == [t |-> "dict", n |-> 0, s |-> "", items |-> <<>>]
PyFalse == [t |-> "bool", n |-> 0, s |-> "", items |-> <<>>]

(***************************************************************************)
(* Abstract syntax trees (Python's ast module), one record shape per node  *)
(* class, with the attribute names of ast.  NameConstant's attribute       *)
(* `value` is called `const` here, ListComp's generators carry the         *)
(* (target, iter, ifs) triples.  Lambda is a node class with no branch in  *)
(* interpret.                                                              *)
(***************************************************************************)
Module(body) == [kind |-> "Module", body |-> body]
FunctionDef(body) == [kind |-> "FunctionDef", body |-> body]
Return(value) == [kind |-> "Return", value |-> value]
Assign(targets, value) == [kind |-> "Assign", targets |-> targets, value |-> value]
For(target, iter, body, orelse) ==
    [kind |-> "For", target |-> target, iter |-> iter, body |-> body, orelse |-> orelse]
While(test, body, orelse) == [kind |-> "While", test |-> test, body |-> body, orelse |-> orelse]
If(test, body, orelse) == [kind |-> "If", test |-> test, body |-> body, orelse |-> orelse]
Expr(value) == [kind |-> "Expr", value |-> value]
Pass == [kind |-> "Pass"]
Break == [kind |-> "Break"]
Continue == [kind |-> "Continue"]
BoolOp(op, values) == [kind |-> "BoolOp", op |-> op, values |-> values]
BinOp(left, op, right) == [kind |-> "BinOp", left |-> left, op |-> op, right |-> right]
UnaryOp(op, operand) == [kind |-> "UnaryOp", op |-> op, operand |-> operand]
SetNode(elts) == [kind |-> "Set", elts |-> elts]
Compare(left, ops, comparators) ==
    [kind |-> "Compare", left |-> left, ops |-> ops, comparators |-> comparators]
Call(func, args) == [kind |-> "Call", func |-> func, args |-> args]
Num(n) == [kind |-> "Num", n |-> n]
Str(s) == [kind |-> "Str", s |-> s]
Bytes(s) == [kind |-> "Bytes", s |-> s]
NameConstant(const) == [kind |-> "NameConstant", const |-> const]
Name(id) == [kind |-> "Name", id |-> id]
ListNode(elts) == [kind |-> "List", elts |-> elts]
TupleNode(elts) == [kind |-> "Tuple", elts |-> elts]
ListComp(elt, generators) == [kind |-> "ListComp", elt |-> elt, generators |-> generators]
Lambda == [kind |-> "Lambda"]

\* The operator classes of ast that interpret tests for, in the order tested.
BoolOps == <<"And", "Or">>
BinOps == <<"Add", "Sub", "Mult", "MatMult", "Div", "Mod", "Pow", "LShift", "RShift",
            "BitOr", "BitXor", "BitAnd", "FloorDiv">>
UnaryOps == <<"Invert", "Not", "UAdd", "USub">>
CompareOps == <<"Eq", "NotEq", "Lt", "LtE", "Gt", "GtE", "Is", "IsNot", "In", "NotIn">>
Range(s) == {s[i] : i \in 1..Len(s)}

(***************************************************************************)
(* Exceptions.  A message is the sequence of the strings concatenated.     *)
(***************************************************************************)
\* SemanticError.__init__: the message computed from the constructor's value.
SemanticErrorMsg(value) ==
    IF value = "Statements"
    THEN <<"No semantics specified for statement sequences.">>
    ELSE <<"No semantics specified for '", value, "' nodes.">>

\* PydrogenError raised by interpret's else branch; ast.dump(a) begins with the class name.
UnsupportedNodeMsg(a) ==
    <<"Pydrogen does not currently support nodes of this type: ", a.kind>>

\* PydrogenError raised by Subtree.post on a view built without a post.
UnsupportedPostMsg ==
    <<"Pydrogen does not currently support definitions for ",
      "alternative interpretations of nodes of this type: ">>

ChainedCompareMsg ==
    <<"Pydrogen does not currently support expressions with chained comparison operations.">>

(***************************************************************************)
(* The outcome of a call: st is "ok" or the class of the exception raised, *)
(* val the value returned, msg the exception's message, chain the messages *)
(* of the exceptions being handled when it was raised (__context__), log   *)
(* the calls of interpret and of handlers made, in order.                  *)
(***************************************************************************)
Ok(v, log) == [st |-> "ok", val |-> v, msg |-> <<>>, chain |-> <<>>, log |-> log]
Raise(cls, msg, log) == [st |-> cls, val |-> PyNone, msg |-> msg, chain |-> <<>>, log |-> log]

(***************************************************************************)
(* Subtree: the pre view (nodes, or lit for a literal's value) and the     *)
(* deferred post computation, here the name of the lambda it was built     *)
(* with: "interpret" (of nodes[1]), "interprets" (of nodes), "statements"  *)
(* (attempt Statements on the "interprets" view), "lit" (the literal), or  *)
(* "none" (no post given).  p and f place the nodes in the tree: node i is *)
(* at path p extended by [f, i].                                           *)
(***************************************************************************)
Subtree(nodes, post, p, f) == [nodes |-> nodes, post |-> post, p |-> p, f |-> f, lit |-> PyNone]
LitSubtree(lit, p, f) == [nodes |-> <<>>, post |-> "lit", p |-> p, f |-> f, lit |-> lit]
ChildPath(p, f, i) == Append(p, [f |-> f, i |-> i])

\* Subtree.pre
Pre(view) == view.nodes

\* One positional argument of a handler call.
NoView == Subtree(<<>>, "none", <<>>, "")
ViewArg(v) == [a |-> "view", view |-> v, val |-> PyNone, gens |-> <<>>]
CtxArg(c) == [a |-> "ctx", view |-> NoView, val |-> c, gens |-> <<>>]
GensArg(g) == [a |-> "gens", view |-> NoView, val |-> PyNone, gens |-> g]

\* Log entries: a call of interpret, a call of a handler by attempt with the
\* argument tuple it was offered and the arguments passed after the cut, and a
\* call of post on a view that has one.
InterpretEvent(a, ctx, p) ==
    [ev |-> "interpret", h |-> a.kind, path |-> p, ctx |-> ctx, offered |-> <<>>, args |-> <<>>]
HandlerEvent(h, offered, passed, p) ==
    [ev |-> "handler", h |-> h, path |-> p, ctx |-> offered[Len(offered)].val,
     offered |-> offered, args |-> passed]

PostEvent(view, context) ==
    [ev |-> "post", h |-> view.post, path |-> view.p, ctx |-> context,
     offered |-> <<ViewArg(view)>>, args |-> <<>>]

(***************************************************************************)
(* Handlers.  The default handlers of class Pydrogen, by name: the number  *)
(* of child parameters each declares before context, and the value it      *)
(* raises SemanticError with.                                              *)
(***************************************************************************)
HandlerNames ==
    {"Statements", "Module", "FunctionDef", "Return", "Assign", "For", "While", "If",
     "Pass", "Break", "Continue", "ListComp", "BoolOp", "BinOp", "UnaryOp", "Set",
     "Compare", "Call", "Num", "Str", "Bytes", "NameConstant", "Name", "List", "Tuple",
     "True_", "False_", "None_"}
    \cup Range(BoolOps) \cup Range(BinOps) \cup Range(UnaryOps) \cup Range(CompareOps)

DefaultChildren(h) ==
    CASE h \in {"Pass", "Break", "Continue", "NameConstant", "True_", "False_", "None_"} -> 0
      [] h \in {"Assign", "ListComp", "BinOp", "Compare", "Call"} -> 2
      [] h \in Range(BinOps) \cup Range(CompareOps) -> 2
      [] h \in {"While", "If"} -> 3
      [] h = "For" -> 4
      [] OTHER -> 1

DefaultRaises(h) ==
    CASE h = "Statements" -> "Statements (Pydrogen-specific case)"
      [] h = "BitXor" -> "BixXor"
      [] h = "True_" -> "True"
      [] h = "False_" -> "False"
      [] h = "None_" -> "None"
      [] OTHER -> h

(***************************************************************************)
(* A method: impl says whether a subclass defines it; nargs is             *)
(* len(inspect.getargspec(f).args), self included; defaults the number of  *)
(* trailing parameters with a default.  The body of a subclass method is   *)
(* described by the received views it calls post on, in order (posts),     *)
(* whether it passes its context to post (pctx), and how it combines what  *)
(* post returned (comb, with the constant c).                              *)
(***************************************************************************)
Default(h) ==
    [impl |-> FALSE, nargs |-> DefaultChildren(h) + 2, defaults |-> 1, posts |-> <<>>,
     pctx |-> FALSE, comb |-> "raise", c |-> PyNone, raises |-> DefaultRaises(h)]

Def(nparams, posts, pctx, comb, c) ==
    [impl |-> TRUE, nargs |-> nparams + 1, defaults |-> 0, posts |-> posts,
     pctx |-> pctx, comb |-> comb, c |-> c, raises |-> ""]

\* class Pydrogen: every handler is the default.
Pydrogen == [name |-> "Pydrogen", m |-> [h \in HandlerNames |-> Default(h)]]

\* A subclass: cls with the methods of defs (a function from names) overriding.
Subclass(name, base, defs) ==
    [name |-> name,
     m |-> [h \in HandlerNames |-> IF h \in DOMAIN defs THEN defs[h] ELSE base.m[h]]]

\* class Typical(Pydrogen)
Typical ==
    Subclass("Typical", Pydrogen,
        [h \in {"Module", "FunctionDef", "Return"} |-> Def(2, <<1>>, TRUE, "pass", PyNone)])

\* class ASTSize(Typical)
ASTSize ==
    Subclass("ASTSize", Typical,
        [h \in {"Statements", "Return", "Assign", "Call", "Num", "NameConstant", "Name",
                "BoolOp", "BinOp", "UnaryOp", "Compare"} |->
            CASE h = "Statements" -> Def(1, <<1>>, FALSE, "suml", PyNone)
              [] h \in {"Return", "UnaryOp"} -> Def(1, <<1>>, FALSE, "size", PyNone)
              [] h = "Assign" -> Def(2, <<2>>, FALSE, "size", PyNone)
              [] h = "Call" -> Def(2, <<2>>, FALSE, "sizel", PyNone)
              [] h = "Num" -> Def(1, <<>>, FALSE, "const", PyInt(1))
              [] h \in {"NameConstant", "Name"} -> Def(0, <<>>, FALSE, "const", PyInt(1))
              [] h = "BoolOp" -> Def(1, <<1>>, FALSE, "sizel", PyNone)
              [] h \in {"BinOp", "Compare"} -> Def(2, <<1, 2>>, FALSE, "size", PyNone)])

\* class Ty(pydrogen.Pydrogen) of the examples
Ty ==
    Subclass("Ty", Pydrogen,
        [h \in {"Statements", "Module", "FunctionDef", "Return", "True_", "False_", "BoolOp",
                "Not", "Num", "Add", "Sub", "Mult", "USub"} |->
            CASE h = "Statements" -> Def(1, <<1>>, FALSE, "last", PyNone)
              [] h \in {"Module", "FunctionDef", "Return"} -> Def(1, <<1>>, FALSE, "pass", PyNone)
              [] h \in {"True_", "False_"} -> Def(0, <<>>, FALSE, "const", PyStr("Bool"))
              [] h = "BoolOp" -> Def(1, <<1>>, FALSE, "tyboolset", PyNone)
              [] h = "Not" -> Def(1, <<1>>, FALSE, "tybool", PyNone)
              [] h = "Num" -> Def(1, <<>>, FALSE, "const", PyStr("Int"))
              [] h \in {"Add", "Sub", "Mult"} -> Def(2, <<1, 2>>, FALSE, "tyint", PyNone)
              [] h = "USub" -> Def(1, <<1>>, FALSE, "tyint", PyNone)])

(***************************************************************************)
(* What a subclass method computes from the values its post calls          *)
(* returned (vals) and its context parameter.                              *)
(***************************************************************************)
RECURSIVE SumInts(_)
SumInts(vals) == IF vals = <<>> THEN 0 ELSE Head(vals).n + SumInts(Tail(vals))

RECURSIVE Concat(_)
Concat(lists) == IF lists = <<>> THEN <<>> ELSE Head(lists).items \o Concat(Tail(lists))

AllOfType(vals, t) == \A i \in 1..Len(vals) : vals[i].t = t

Returned(v) == [st |-> "ok", val |-> v, msg |-> <<>>]
TypeError == [st |-> "TypeError", val |-> PyNone, msg |-> <<"unsupported operand type(s)">>]
IndexError == [st |-> "IndexError", val |-> PyNone, msg |-> <<"index out of range">>]

Combine(f, passed, vals, ctx) ==
    CASE f.comb = "const" -> Returned(f.c)
      \* return e.post(...)
      [] f.comb = "pass" -> Returned(vals[1])
      \* return 1 + e1.post() + e2.post()
      [] f.comb = "size" ->
            IF AllOfType(vals, "int") THEN Returned(PyInt(1 + SumInts(vals))) ELSE TypeError
      \* return 1 + sum(es.post())
      [] f.comb = "sizel" ->
            IF AllOfType(vals, "list") /\ AllOfType(Concat(vals), "int")
            THEN Returned(PyInt(1 + SumInts(Concat(vals)))) ELSE TypeError
      \* return sum(ss.post())
      [] f.comb = "suml" ->
            IF AllOfType(vals, "list") /\ AllOfType(Concat(vals), "int")
            THEN Returned(PyInt(SumInts(Concat(vals)))) ELSE TypeError
      \* return ss.post()[-1]
      [] f.comb = "last" ->
            IF vals[1].t \notin {"list", "tuple"} THEN TypeError
            ELSE IF vals[1].items = <<>> THEN IndexError
            ELSE Returned(vals[1].items[Len(vals[1].items)])
      \* return len(elts.post())
      [] f.comb = "len" ->
            IF vals[1].t \in {"list", "tuple"} THEN Returned(PyInt(Len(vals[1].items)))
            ELSE TypeError
      \* return 'Int' if e1.post() == 'Int' and e2.post() == 'Int' else 'Error'
      [] f.comb = "tyint" ->
            Returned(IF Len(vals) = Len(f.posts) /\ \A i \in 1..Len(vals) : vals[i] = PyStr("Int")
                     THEN PyStr("Int") ELSE PyStr("Error"))
      \* return 'Bool' if e.post() == 'Bool' else 'Error'
      [] f.comb = "tybool" ->
            Returned(IF vals[1] = PyStr("Bool") THEN PyStr("Bool") ELSE PyStr("Error"))
      \* return 'Bool' if frozenset(es.post()) == {'Bool'} else 'Error'
      [] f.comb = "tyboolset" ->
            IF vals[1].t \notin {"list", "tuple"} THEN TypeError
            ELSE Returned(IF vals[1].items # <<>>
                             /\ \A i \in 1..Len(vals[1].items) : vals[1].items[i] = PyStr("Bool")
                          THEN PyStr("Bool") ELSE PyStr("Error"))
      \* return (1 + e.post(), context + 1)
      [] f.comb = "pairinc" ->
            IF AllOfType(vals, "int") /\ ctx.t = "int"
            THEN Returned(PyTuple(<<PyInt(1 + SumInts(vals)), PyInt(ctx.n + 1)>>))
            ELSE TypeError
      \* return len(ss.pre()): the structure inspected, nothing folded
      [] f.comb = "prelen" ->
            IF passed # <<>> /\ passed[1].a = "view"
            THEN Returned(PyInt(Len(Pre(passed[1].view))))
            ELSE TypeError
      \* return [body.post(context), orelse.post(context)]
      [] f.comb = "all" -> Returned(PyList(vals))
      [] OTHER -> Returned(PyNone)

\* `and` stops evaluating at the first operand that is false.
ShortCircuit(f, vals) ==
    f.comb = "tyint" /\ vals # <<>> /\ vals[Len(vals)] # PyStr("Int")

(***************************************************************************)
(* The fold engine.                                                        *)
(***************************************************************************)
RECURSIVE Interpret(_, _, _, _)
RECURSIVE InterpretsFrom(_, _, _, _, _, _)
RECURSIVE Post(_, _, _)
RECURSIVE PostFrom(_, _, _, _, _, _, _)
RECURSIVE CallHandler(_, _, _, _, _, _)
RECURSIVE Attempt(_, _, _, _, _)

\* The outcome o with the calls of log made before it.
After(log, o) == [o EXCEPT !.log = log \o @]

\* Subtree.post, from the result of self._post(context) on.
PostResult(view, context, result) ==
    IF result.st # "ok" THEN After(<<PostEvent(view, context)>>, result)
    ELSE IF result.val.t = "tuple" /\ context = PyNone
    THEN IF result.val.items = <<>>
         THEN Raise("IndexError", IndexError.msg, <<PostEvent(view, context)>> \o result.log)
         ELSE [result EXCEPT !.val = @.items[1],                    \* Discard context.
                             !.log = <<PostEvent(view, context)>> \o @]
    ELSE After(<<PostEvent(view, context)>>, result)                \* With context.

\* Subtree.post
Post(I, view, context) ==
    PostResult(view, context,
        CASE view.post = "interpret" ->
                Interpret(I, view.nodes[1], context, ChildPath(view.p, view.f, 1))
          [] view.post = "interprets" -> InterpretsFrom(I, view, context, 1, <<>>, <<>>)
          [] view.post = "statements" ->
                Attempt(I, "Statements",
                        <<ViewArg([view EXCEPT !.post = "interprets"]), CtxArg(context)>>,
                        ChildPath(view.p, view.f, 0), <<>>)
          [] view.post = "lit" -> Ok(view.lit, <<>>)
          [] OTHER -> Raise("PydrogenError", UnsupportedPostMsg, <<>>))

\* What a subclass method returns once its post calls returned vals.
HandlerReturn(f, passed, context, vals, log) ==
    LET c == Combine(f, passed, vals, context)
    IN  [st |-> c.st, val |-> c.val, msg |-> c.msg, chain |-> <<>>, log |-> log]

\* post memoized: a second call on the same view returns what the first did.
PostNext_Memoized(I, passed, f, context, i, vals, log, r) ==
    IF r.st # "ok" THEN After(log, r)
    ELSE IF i < Len(f.posts) /\ f.posts[i + 1] = f.posts[i]
    THEN PostFrom(I, passed, f, context, i + 2, vals \o <<r.val, r.val>>,
                  log \o r.log \o <<PostEvent(passed[f.posts[i]].view,
                                              IF f.pctx THEN context ELSE PyNone)>>)
    ELSE PostFrom(I, passed, f, context, i + 1, Append(vals, r.val), log \o r.log)

\* post merging contexts: the context a view's fold returned replaces the
\* method's own for its later post calls.
PostNext_MergesContext(I, passed, f, context, i, vals, log, r) ==
    IF r.st # "ok" THEN After(log, r)
    ELSE PostFrom(I, passed, f,
                  IF f.pctx /\ r.val.t = "tuple" /\ Len(r.val.items) = 2
                  THEN r.val.items[2] ELSE context,
                  i + 1, Append(vals, r.val), log \o r.log)

\* The body of a subclass method after its i-th post call returned r.
PostNext(I, passed, f, context, i, vals, log, r) ==
    IF r.st # "ok" THEN After(log, r)
    ELSE PostFrom(I, passed, f, context, i + 1, Append(vals, r.val), log \o r.log)

\* The body of a subclass method: its post calls in order, from the i-th on,
\* then its return.  log holds the calls made so far.
PostFrom(I, passed, f, context, i, vals, log) ==
    CASE i > Len(f.posts) \/ ShortCircuit(f, vals) -> HandlerReturn(f, passed, context, vals, log)
      [] /\ i <= Len(f.posts) /\ ~ShortCircuit(f, vals)
         /\ (f.posts[i] > Len(passed) \/ passed[f.posts[i]].a # "view") ->
            Raise("AttributeError", <<"object has no attribute 'post'">>, log)
      [] OTHER ->
            PostNext(I, passed, f, context, i, vals, log,
                     Post(I, passed[f.posts[i]].view, IF f.pctx THEN context ELSE PyNone))

\* The context parameter of a call with the arguments passed.
ContextOf(passed) ==
    IF passed # <<>> /\ passed[Len(passed)].a = "ctx" THEN passed[Len(passed)].val ELSE PyNone

\* f(*passed): the call of method h of I, after the calls of log.
CallHandler(I, h, offered, passed, p, log) ==
    CASE Len(passed) + I.m[h].defaults < I.m[h].nargs - 1 ->
            Raise("TypeError", <<"missing required positional arguments">>, log)
      [] Len(passed) + I.m[h].defaults >= I.m[h].nargs - 1 /\ ~I.m[h].impl ->
            Raise("SemanticError", SemanticErrorMsg(I.m[h].raises),
                  Append(log, HandlerEvent(h, offered, passed, p)))
      [] OTHER ->
            PostFrom(I, passed, I.m[h], ContextOf(passed), 1, <<>>,
                     Append(log, HandlerEvent(h, offered, passed, p)))

\* attempt folding every child before the call of the handler.
Attempt_Eager(I, h, args, p, log) ==
    LET views == SelectSeq([i \in 1..Len(args) |-> i],
                           LAMBDA i : args[i].a = "view" /\ args[i].view.post # "none")
        folded == PostFrom(I, args, [Default(h) EXCEPT !.posts = views], PyNone, 1, <<>>, log)
    IN  IF folded.st # "ok" THEN folded
        ELSE CallHandler(I, h, args, SubSeq(args, 1, Min(Len(args), I.m[h].nargs - 1)), p,
                         folded.log)

\* attempt counting self among the parameters to fill.
Attempt_CountsSelf(I, h, args, p, log) ==
    CallHandler(I, h, args, SubSeq(args, 1, Min(Len(args), I.m[h].nargs)), p, log)

\* Pydrogen.attempt: f(*args[0:len(inspect.getargspec(f).args)-1])
Attempt(I, h, args, p, log) ==
    CallHandler(I, h, args, SubSeq(args, 1, Min(Len(args), I.m[h].nargs - 1)), p, log)

\* interprets keeping the incoming context for every node.
InterpretsNext_SameContext(I, view, context, i, rs, log, r) ==
    IF r.st # "ok" THEN After(log, r)
    ELSE InterpretsFrom(I, view, context, i + 1,
                        Append(rs, IF r.val.t = "tuple" THEN r.val.items[1] ELSE r.val),
                        log \o r.log)

\* Pydrogen.interprets after the i-th node's interpret returned r.
InterpretsNext(I, view, context, i, rs, log, r) ==
    IF r.st # "ok" THEN After(log, r)
    ELSE IF r.val.t = "tuple" /\ Len(r.val.items) # 2
    THEN Raise("ValueError", <<"wrong number of values to unpack">>, log \o r.log)
    ELSE InterpretsFrom(I, view, IF r.val.t = "tuple" THEN r.val.items[2] ELSE context,
                        i + 1,
                        Append(rs, IF r.val.t = "tuple" THEN r.val.items[1] ELSE r.val),
                        log \o r.log)

\* Pydrogen.interprets, from the i-th node on.
InterpretsFrom(I, view, context, i, rs, log) ==
    IF i > Len(view.nodes)
    THEN Ok(IF context = PyNone THEN PyList(rs) ELSE PyTuple(<<PyList(rs), context>>), log)
    ELSE InterpretsNext(I, view, context, i, rs, log,
            Interpret(I, view.nodes[i], context, ChildPath(view.p, view.f, i)))

\* The exception g raised while r was being handled: r is its context.
Chained(r, g) ==
    [g EXCEPT !.log = r.log \o @,
              !.chain = IF g.st = "ok" THEN <<>> ELSE @ \o <<r.msg>> \o r.chain]

\* The fallback made without the context.
Except_DropsContext(I, generic, args, p, r) ==
    IF r.st # "SemanticError" THEN r
    ELSE Chained(r, Attempt(I, generic, [args EXCEPT ![Len(args)] = CtxArg(PyNone)], p, <<>>))

\* A bare except: the fallback made after an error of any class.
Except_Any(I, generic, args, p, r) ==
    IF r.st = "ok" THEN r ELSE Chained(r, Attempt(I, generic, args, p, <<>>))

\* try: return <r> except SemanticError: return self.attempt(self.<generic>, ...)
Except(I, generic, args, p, r) ==
    IF r.st # "SemanticError" THEN r ELSE Chained(r, Attempt(I, generic, args, p, <<>>))

\* try: return self.attempt(self.<specific>, ...) except SemanticError: ...
TryExcept(I, specific, generic, args, p, log) ==
    Except(I, generic, args, p, Attempt(I, specific, args, p, log))

\* The views interpret builds on the children of node a at path p.
One(a, p, f) == ViewArg(Subtree(<<a[f]>>, "interpret", p, f))
Many(a, p, f) == ViewArg(Subtree(a[f], "interprets", p, f))
Stmts(a, p, f) == ViewArg(Subtree(a[f], "statements", p, f))
Raw(nodes, p, f) == ViewArg(Subtree(nodes, "none", p, f))
Lit(v, p, f) == ViewArg(LitSubtree(v, p, f))
Gen(a, p, i) ==
    LET g == a.generators[i]
        gp == ChildPath(p, "generators", i)
    IN  [target |-> Subtree(<<g.target>>, "none", gp, "target"),
         iter |-> Subtree(<<g.iter>>, "interpret", gp, "iter"),
         ifs |-> [k \in 1..Len(g.ifs) |->
                     Subtree(<<g.ifs[k]>>, "interpret", ChildPath(gp, "ifs", k), "if")]]
Called(a, context, p) == <<InterpretEvent(a, context, p)>>
NameConstantHandler(a) ==
    IF a.const = "True" THEN "True_" ELSE IF a.const = "False" THEN "False_" ELSE "None_"

\* interpret dispatching every comparison, whatever its number of operators.
IsChained_Never(a) == FALSE

\* not(len(a.ops) == 1 and len(a.comparators) == 1)
IsChained(a) == ~(Len(a.ops) = 1 /\ Len(a.comparators) = 1)

\* Pydrogen.interpret
Interpret(I, a, context, p) ==
    CASE a.kind = "Module" ->
            Attempt(I, "Module", <<Stmts(a, p, "body"), CtxArg(context)>>, p, Called(a, context, p))
      [] a.kind = "FunctionDef" ->
            Attempt(I, "FunctionDef", <<Stmts(a, p, "body"), CtxArg(context)>>, p,
                    Called(a, context, p))
      [] a.kind = "Return" ->
            Attempt(I, "FunctionDef", <<One(a, p, "value"), CtxArg(context)>>, p,
                    Called(a, context, p))
      [] a.kind = "Assign" ->
            Attempt(I, "Assign",
                    <<Raw(a.targets, p, "targets"), One(a, p, "value"), CtxArg(context)>>, p,
                    Called(a, context, p))
      [] a.kind = "For" ->
            Attempt(I, "For",
                    <<Raw(<<a.target>>, p, "target"), One(a, p, "iter"), Stmts(a, p, "body"),
                      Stmts(a, p, "orelse"), CtxArg(context)>>, p, Called(a, context, p))
      [] a.kind \in {"While", "If"} ->
            Attempt(I, a.kind,
                    <<One(a, p, "test"), Stmts(a, p, "body"), Stmts(a, p, "orelse"),
                      CtxArg(context)>>, p, Called(a, context, p))
      [] a.kind = "Expr" ->
            After(Called(a, context, p), Interpret(I, a.value, context, ChildPath(p, "value", 1)))
      [] a.kind \in {"Pass", "Break", "Continue"} ->
            Attempt(I, a.kind, <<CtxArg(context)>>, p, Called(a, context, p))
      [] a.kind = "BoolOp" /\ a.op \in Range(BoolOps) ->
            TryExcept(I, a.op, "BoolOp", <<Many(a, p, "values"), CtxArg(context)>>, p,
                      Called(a, context, p))
      [] a.kind = "BinOp" /\ a.op \in Range(BinOps) ->
            TryExcept(I, a.op, "BinOp",
                      <<One(a, p, "left"), One(a, p, "right"), CtxArg(context)>>, p,
                      Called(a, context, p))
      [] a.kind = "UnaryOp" /\ a.op \in Range(UnaryOps) ->
            TryExcept(I, a.op, "UnaryOp", <<One(a, p, "operand"), CtxArg(context)>>, p,
                      Called(a, context, p))
      [] a.kind \in {"Set", "List", "Tuple"} ->
            Attempt(I, a.kind, <<Many(a, p, "elts"), CtxArg(context)>>, p, Called(a, context, p))
      [] a.kind = "Compare" /\ IsChained(a) ->
            Raise("PydrogenError", ChainedCompareMsg, Called(a, context, p))
      [] a.kind = "Compare" /\ ~IsChained(a) /\ a.ops[1] \in Range(CompareOps) ->
            TryExcept(I, a.ops[1], "Compare",
                      <<One(a, p, "left"),
                        ViewArg(Subtree(<<a.comparators[1]>>, "interpret", p, "comparators")),
                        CtxArg(context)>>, p, Called(a, context, p))
      [] a.kind = "Call" ->
            Attempt(I, "Call", <<Raw(<<a.func>>, p, "func"), Many(a, p, "args"), CtxArg(context)>>,
                    p, Called(a, context, p))
      [] a.kind = "Num" ->
            Attempt(I, "Num", <<Lit(PyInt(a.n), p, "n"), CtxArg(context)>>, p,
                    Called(a, context, p))
      [] a.kind \in {"Str", "Bytes"} ->
            Attempt(I, a.kind, <<Lit(PyStr(a.s), p, "s"), CtxArg(context)>>, p,
                    Called(a, context, p))
      [] a.kind = "NameConstant" /\ a.const \in {"True", "False", "None"} ->
            TryExcept(I, NameConstantHandler(a), "NameConstant", <<CtxArg(context)>>, p,
                      Called(a, context, p))
      [] a.kind = "Name" ->
            Attempt(I, "Name", <<Lit(PyStr(a.id), p, "id"), CtxArg(context)>>, p,
                    Called(a, context, p))
      [] a.kind = "ListComp" ->
            Attempt(I, "ListComp",
                    <<One(a, p, "elt"), GensArg([i \in 1..Len(a.generators) |-> Gen(a, p, i)]),
                      CtxArg(context)>>, p, Called(a, context, p))
      \* An operator node whose operator no branch names: no branch returns.
      [] a.kind \in {"BoolOp", "BinOp", "UnaryOp", "Compare", "NameConstant"} ->
            Ok(PyNone, Called(a, context, p))
      [] OTHER -> Raise("PydrogenError", UnsupportedNodeMsg(a), Called(a, context, p))

(***************************************************************************)
(* The functions the examples decorate, their source as ast.parse gives    *)
(* it, their own attributes, and what calling them returns.                *)
(***************************************************************************)
FunctionObject(name) == [cls |-> "function", name |-> name]

\* def add(x, y): return x + y
AddSource == Module(<<FunctionDef(<<Return(BinOp(Name("x"), "Add", Name("y")))>>)>>)
\* def correct(): return -1 + 2 - 3 * 4
CorrectSource ==
    Module(<<FunctionDef(<<Return(
        BinOp(BinOp(UnaryOp("USub", Num(1)), "Add", Num(2)), "Sub",
              BinOp(Num(3), "Mult", Num(4))))>>)>>)
\* def incorrect(): return 123 and False
IncorrectSource ==
    Module(<<FunctionDef(<<Return(BoolOp("And", <<Num(123), NameConstant("False")>>))>>)>>)
\* def three(): return 1 + 2
ThreeSource == Module(<<FunctionDef(<<Return(BinOp(Num(1), "Add", Num(2)))>>)>>)

FunctionNames == {"add", "correct", "incorrect", "three"}

Sources ==
    [name \in FunctionNames |->
        CASE name = "add" -> AddSource
          [] name = "correct" -> CorrectSource
          [] name = "incorrect" -> IncorrectSource
          [] OTHER -> ThreeSource]

\* The attributes of the function objects: __name__, and on `three` an
\* attribute Ty set by its author.
FunctionAttrs(name) ==
    IF name = "three"
    THEN [a \in {"__name__", "Ty"} |-> IF a = "Ty" THEN PyStr("own") ELSE PyStr(name)]
    ELSE [a \in {"__name__"} |-> PyStr(name)]

\* f(*args, **kwargs) for a function object f: args a sequence of integers,
\* kwargs a function from parameter names to integers.
CallFunction(f, args, kwargs) ==
    LET params == IF f.name = "add" THEN <<"x", "y">> ELSE <<>>
        pos == {params[i] : i \in 1..Min(Len(args), Len(params))}
        bound(q) == IF \E i \in 1..Len(args) : i <= Len(params) /\ params[i] = q
                    THEN args[CHOOSE i \in 1..Len(params) : params[i] = q]
                    ELSE kwargs[q]
    IN  IF Len(args) > Len(params)
           \/ DOMAIN kwargs \cap pos # {}
           \/ ~(DOMAIN kwargs \subseteq Range(params))
           \/ Range(params) # pos \cup DOMAIN kwargs
        THEN Raise("TypeError", <<f.name, "() got unexpected or missing arguments">>, <<>>)
        ELSE CASE f.name = "add" -> Ok(PyInt(bound("x") + bound("y")), <<>>)
               [] f.name = "correct" -> Ok(PyInt((0 - 1) + 2 - 3 * 4), <<>>)
               [] f.name = "incorrect" -> Ok(PyFalse, <<>>)
               [] OTHER -> Ok(PyInt(1 + 2), <<>>)

(***************************************************************************)
(* class Function: the carrier of the results.                             *)
(***************************************************************************)
\* __init__ without self._interpretations.update(func._interpretations).
FunctionInit_NoUpdate(func, cls, interpretation) ==
    [cls |-> "Function",
     _func |-> IF func.cls = "Function" THEN func._func ELSE func,
     _interpretations |-> [n \in {cls.name} |-> interpretation]]

\* Function.__init__(self, func, cls, interpretation)
FunctionInit(func, cls, interpretation) ==
    LET inherited == IF func.cls = "Function" THEN func._interpretations ELSE <<>>
    IN  [cls |-> "Function",
         _func |-> IF func.cls = "Function" THEN func._func ELSE func,
         _interpretations |->
            [n \in DOMAIN inherited \cup {cls.name} |->
                IF n = cls.name THEN interpretation ELSE inherited[n]]]

\* getattr(obj, attr) on a function object
FunctionObjectGetattr(f, attr) ==
    IF attr \in DOMAIN FunctionAttrs(f.name)
    THEN Ok(FunctionAttrs(f.name)[attr], <<>>)
    ELSE Raise("AttributeError", <<"'function' object has no attribute '", attr, "'">>, <<>>)

\* __getattr__ answering None for a name it does not hold.
FunctionGetattr_Get(self, attr) ==
    IF attr \in DOMAIN self._interpretations
    THEN Ok(self._interpretations[attr], <<>>)
    ELSE Ok(PyNone, <<>>)

\* Function.__getattr__(self, attr)
FunctionGetattr(self, attr) ==
    IF attr \in DOMAIN self._interpretations
    THEN Ok(self._interpretations[attr], <<>>)
    ELSE FunctionObjectGetattr(self._func, attr)

\* __call__ passing the positional arguments only.
FunctionCall_NoKwargs(self, args, kwargs) == CallFunction(self._func, args, <<>>)

\* Function.__call__(self, *args, **kwargs)
FunctionCall(self, args, kwargs) == CallFunction(self._func, args, kwargs)

\* ast.parse(inspect.getsource(original)): a Function object has no source.
Parse(src, original) ==
    IF original.cls = "function" THEN Ok(src[original.name], <<>>)
    ELSE Raise("TypeError", <<"object is not a module, class, method, function">>, <<>>)

\* process taking the source of whatever it is given.
Original_Given(func) == func

\* original = func._func if type(func) == Function else func
Original(func) == IF func.cls = "Function" THEN func._func ELSE func

\* Function(func, self, <the fold's result r>)
Carrier(I, func, r) == IF r.st # "ok" THEN r ELSE [r EXCEPT !.val = FunctionInit(func, I, r.val)]

\* self.interpret(<the tree parsed, t>, {})
ProcessTree(I, func, t) ==
    IF t.st # "ok" THEN t ELSE Carrier(I, func, Interpret(I, t.val, PyDict, <<>>))

\* Pydrogen.process(self, func): the outcome, val the Function object returned.
Process(I, func, src) == ProcessTree(I, func, Parse(src, Original(func)))

(***************************************************************************)
(* Inputs: interpretations (subclasses a user may write) and trees.        *)
(***************************************************************************)
\* Bounds of the inputs.
MaxBody == 2
MaxApplications == 3
MaxArgs == 2

\* class Size(pydrogen.Typical) of the examples
Size ==
    Subclass("Size", Typical,
        [h \in {"List", "Num"} |->
            IF h = "List" THEN Def(1, <<1>>, FALSE, "len", PyNone)
            ELSE Def(1, <<>>, FALSE, "const", PyInt(1))])

Classes == {ASTSize, Ty, Size}

\* The handler names that are not resolved sub-ops.
KindHandlers ==
    HandlerNames \ (Range(BoolOps) \cup Range(BinOps) \cup Range(UnaryOps)
                    \cup Range(CompareOps) \cup {"True_", "False_", "None_"})

\* The positions, among the first n children a handler of name h receives,
\* of the views whose post returns a number (or a list of numbers).
Postable(h, n) ==
    LET all == CASE h \in {"Assign", "Call"} -> <<2>>
                 [] h = "For" -> <<2, 3, 4>>
                 [] h = "ListComp" -> <<1>>
                 [] h \in {"Num", "Str", "Bytes", "Name"} -> <<>>
                 [] OTHER -> [i \in 1..DefaultChildren(h) |-> i]
    IN  SelectSeq(all, LAMBDA i : i <= n)

\* A size-counting method of name h declaring n parameters after self: the
\* first n of (children..., context).
Sized(h, n) ==
    LET k == DefaultChildren(h) IN
    Def(n, Postable(h, Min(n, k)), n = k + 1,
        CASE h \in {"Module", "FunctionDef"} /\ n > 0 -> "pass"
          [] h = "Statements" /\ n > 0 -> "suml"
          [] h \in {"BoolOp", "And", "Or", "Call", "Set", "List", "Tuple"} /\ n > 0 -> "sizel"
          [] OTHER -> "size",
        PyNone)

\* An interpretation with a size-counting method for every node kind and
\* every family, none for a resolved sub-op.
Full ==
    [name |-> "Full",
     m |-> [h \in HandlerNames |->
               IF h \in KindHandlers THEN Sized(h, DefaultChildren(h)) ELSE Default(h)]]

Omit(I, h) == [I EXCEPT !.m[h] = Default(h)]
With(I, h, d) == [I EXCEPT !.m[h] = d]

\* Bodies of a resolved sub-op's method with k children: it folds its
\* operands, ignores them, inspects them with pre() only, or takes a context.
SpecificBodies(h) ==
    LET k == DefaultChildren(h) IN
    {Sized(h, k), Sized(h, k + 1), Def(k, <<>>, FALSE, "const", PyInt(7))}
    \cup (IF k > 0 THEN {Def(k, <<>>, FALSE, "prelen", PyNone)} ELSE {})

\* Threads a counter: Assign returns (1 + e.post(), context + 1); Statements,
\* Module, FunctionDef return ss.post(context); For, While and If call
\* ss.post(context), then orelse.post(context), and return the former.
Counter ==
    [name |-> "Counter",
     m |-> [h \in HandlerNames |->
               CASE h \in {"Statements", "Module", "FunctionDef"} ->
                        Def(2, <<1>>, TRUE, "pass", PyNone)
                 [] h = "Assign" -> Def(3, <<2>>, FALSE, "pairinc", PyNone)
                 [] h = "For" -> Def(5, <<3, 4>>, TRUE, "pass", PyNone)
                 [] h \in {"While", "If"} -> Def(4, <<2, 3>>, TRUE, "pass", PyNone)
                 [] OTHER -> Full.m[h]]]

\* Returns a pair for a number: Num returns (1, 2); UnaryOp returns e.post()
\* and List returns es.post().
PairShaped ==
    [name |-> "PairShaped",
     m |-> [h \in HandlerNames |->
               CASE h = "Num" -> Def(1, <<>>, FALSE, "const", PyTuple(<<PyInt(1), PyInt(2)>>))
                 [] h \in {"UnaryOp", "List"} -> Def(1, <<1>>, FALSE, "pass", PyNone)
                 [] OTHER -> Full.m[h]]]

\* Calls post twice on one view: UnaryOp returns 1 + e.post() + e.post().
Twice == [Full EXCEPT !.name = "Twice", !.m["UnaryOp"] = Def(1, <<1, 1>>, FALSE, "size", PyNone)]

\* Add folds its operands, BinOp returns 7 without folding, no Name handler.
AddOverConstant ==
    [Full EXCEPT !.name = "AddOverConstant",
                 !.m["Name"] = Default("Name"),
                 !.m["BinOp"] = Def(2, <<>>, FALSE, "const", PyInt(7)),
                 !.m["Add"] = Sized("Add", 2)]

\* Counter with branching handlers that fold both branches from their own
\* context and return the two results:
\*   def If(self, test, body, orelse, context):
\*       return [body.post(context), orelse.post(context)]
Branches ==
    [Counter EXCEPT !.name = "Branches",
                    !.m["For"] = Def(5, <<3, 4>>, TRUE, "all", PyNone),
                    !.m["While"] = Def(4, <<2, 3>>, TRUE, "all", PyNone),
                    !.m["If"] = Def(4, <<2, 3>>, TRUE, "all", PyNone)]

SpecificOps == {"Add", "BitXor", "And", "USub", "Lt", "True_"}
AritySubjects == {"BinOp", "Assign", "For", "If", "Num", "Pass", "Statements"}

InterpInputs ==
    Classes \cup {Pydrogen, Typical, Full, Counter, Branches, PairShaped, Twice,
                 AddOverConstant}
    \cup {Omit(Full, h) : h \in KindHandlers}
    \cup UNION {{With(J, h, d) : J \in {Full, Omit(Full, "Name")}, d \in SpecificBodies(h)} :
                   h \in SpecificOps}
    \cup {With(Omit(Full, g), h, Sized(h, DefaultChildren(h))) :
             g \in {"BinOp", "BoolOp", "UnaryOp", "Compare", "NameConstant"}, h \in SpecificOps}
    \cup UNION {{With(Full, h, Sized(h, n)) : n \in 0..(DefaultChildren(h) + 1)} :
                   h \in AritySubjects}

ContextInputs == {PyNone, PyInt(0)}

Atoms ==
    {Num(1), Str("s"), Bytes("b"), NameConstant("True"), NameConstant("False"),
     NameConstant("None"), Name("x"), Lambda}

Operands == {Num(1), Name("x"), Lambda, UnaryOp("USub", Num(1))}

OpNodes(l, r) ==
    {BinOp(l, op, r) : op \in Range(BinOps)} \cup {UnaryOp(op, l) : op \in Range(UnaryOps)}
    \cup {BoolOp(op, <<l, r>>) : op \in Range(BoolOps)}
    \cup {Compare(l, <<op>>, <<r>>) : op \in Range(CompareOps)}

ExprInputs ==
    Atoms \cup OpNodes(Num(1), Name("x"))
    \cup {BinOp(l, op, r) : l \in Operands, op \in {"Add", "BitXor"}, r \in Operands}
    \cup {BoolOp("And", <<l, Num(1)>>) : l \in Operands}
    \cup {UnaryOp("USub", l) : l \in Operands}
    \cup {Compare(l, <<"Lt">>, <<Num(1)>>) : l \in Operands}
    \cup {Compare(Num(1), <<"Lt", "Lt">>, <<l, Num(1)>>) : l \in Operands}
    \cup {Compare(l, <<"Lt", "Eq">>, <<Num(1)>>) : l \in Operands}
    \cup UNION {{Call(Name("f"), <<l>>), ListNode(<<l, Num(1)>>), TupleNode(<<l>>),
                 SetNode(<<Num(1), l>>),
                 ListComp(l, <<[kind |-> "comprehension", target |-> Name("i"), iter |-> l,
                                ifs |-> <<l>>]>>)} : l \in Operands}

SimpleStmts == {Pass, Assign(<<Name("y")>>, Num(1)), Expr(Lambda)}

\* for x in items: total = total + x
Scenario3 ==
    For(Name("x"), Name("items"),
        <<Assign(<<Name("total")>>, BinOp(Name("total"), "Add", Name("x")))>>, <<>>)

RECURSIVE SeqsUpTo(_, _)
SeqsUpTo(S, n) ==
    IF n = 0 THEN {<<>>}
    ELSE LET shorter == SeqsUpTo(S, n - 1) IN
         shorter \cup {Append(q, x) : q \in {r \in shorter : Len(r) = n - 1}, x \in S}

Bodies == SeqsUpTo(SimpleStmts, MaxBody)

StmtInputs ==
    {Pass, Break, Continue}
    \cup UNION {{Return(e), Assign(<<Name("y")>>, e), Expr(e)} : e \in Operands}
    \cup UNION {{For(Name("i"), Name("x"), b, o), While(Num(1), b, o), If(Lambda, b, o)} :
                   b \in Bodies, o \in {<<>>, <<Expr(Lambda)>>, <<Assign(<<Name("y")>>, Num(1))>>}}
    \cup {Scenario3}

TreeInputs ==
    ExprInputs \cup StmtInputs
    \cup UNION {{FunctionDef(b), Module(<<FunctionDef(b)>>)} : b \in Bodies}
    \cup {Sources[n] : n \in FunctionNames}

AttrInputs == {"ASTSize", "Ty", "Size", "__name__", "missing"}

ArgInputs == SeqsUpTo({1, 2}, MaxArgs)
KwargInputs == {<<>>} \cup {[q \in {"y"} |-> v] : v \in {5}} \cup {[q \in {"z"} |-> v] : v \in {5}}

(***************************************************************************)
(* The state: the inputs of the engine's current call (interp, tree,       *)
(* context), the object the decorated name is bound to (func) with the     *)
(* function object it began as (orig), the source of the functions, the    *)
(* results stored by the decorators applied so far (applied), and the      *)
(* outcome of the last operation (out).                                    *)
(***************************************************************************)
VARIABLES interp, tree, context, func, orig, source, applied, out

vars == <<interp, tree, context, func, orig, source, applied, out>>

NoCall == [op |-> "none", r |-> Ok(PyNone, <<>>), attr |-> "", args |-> <<>>, kwargs |-> <<>>]
Done(op, r) == [NoCall EXCEPT !.op = op, !.r = r]

\* The engine alone: every input interpretation on every input tree.
InitFold ==
    /\ interp \in InterpInputs
    /\ tree \in TreeInputs
    /\ context \in ContextInputs
    /\ func = FunctionObject("add")
    /\ orig = func
    /\ source = Sources
    /\ applied = <<>>
    /\ out = NoCall

\* A decorated function: the example classes on the example functions.
Init ==
    /\ interp \in Classes
    /\ \E n \in FunctionNames :
          /\ func = FunctionObject(n)
          /\ tree = Sources[n].body[1]
    /\ context = PyNone
    /\ orig = func
    /\ source = Sources
    /\ applied = <<>>
    /\ out = NoCall

\* Cls(tree), Cls().interpret(tree, context): Pydrogen.__new__ on a tree.
Fold ==
    /\ out.op = "none"
    /\ out' = Done("interpret", Interpret(interp, tree, context, <<>>))
    /\ UNCHANGED <<interp, tree, context, func, orig, source, applied>>

\* func = Cls(func) once process, having parsed t, returned r: the name is
\* rebound unless it raised.
Rebind(I, t, r) ==
    /\ interp' = I
    /\ tree' = IF t.st = "ok" THEN t.val ELSE tree
    /\ context' = PyDict
    /\ func' = IF r.st = "ok" THEN r.val ELSE func
    /\ applied' = IF r.st = "ok"
                  THEN Append(applied, [name |-> I.name, val |-> r.val._interpretations[I.name]])
                  ELSE applied
    /\ out' = Done("process", IF r.st = "ok"
                              THEN [r EXCEPT !.val = @._interpretations[I.name]] ELSE r)

\* func = Cls(func): Pydrogen.__new__ on a callable, the decorator.
Decorate(I) ==
    /\ Len(applied) < MaxApplications
    /\ Rebind(I, Parse(source, Original(func)), Process(I, func, source))
    /\ UNCHANGED <<orig, source>>

\* func.attr
GetAttr(attr) ==
    /\ out' = [Done("getattr", IF func.cls = "Function" THEN FunctionGetattr(func, attr)
                               ELSE FunctionObjectGetattr(func, attr))
               EXCEPT !.attr = attr]
    /\ UNCHANGED <<interp, tree, context, func, orig, source, applied>>

\* func(*args, **kwargs)
CallFunc(args, kwargs) ==
    /\ out' = [Done("call", IF func.cls = "Function" THEN FunctionCall(func, args, kwargs)
                            ELSE CallFunction(func, args, kwargs))
               EXCEPT !.args = args, !.kwargs = kwargs]
    /\ UNCHANGED <<interp, tree, context, func, orig, source, applied>>

Next ==
    \/ Fold
    \/ \E I \in Classes : Decorate(I)
    \/ \E attr \in AttrInputs : GetAttr(attr)
    \/ \E args \in ArgInputs, kwargs \in KwargInputs : CallFunc(args, kwargs)

Spec == Init /\ [][Next]_vars

SpecFold == InitFold /\ [][Fold]_vars

(***************************************************************************)
(* Reading the log of the last engine call.                                *)
(***************************************************************************)
Log == out.r.log
HandlerEvents == {i \in 1..Len(Log) : Log[i].ev = "handler"}
Implements(I, h) == I.m[h].impl

SubOps == Range(BoolOps) \cup Range(BinOps) \cup Range(UnaryOps) \cup Range(CompareOps)
Families == {"BoolOp", "BinOp", "UnaryOp", "Compare"}
Family(h) ==
    CASE h \in Range(BoolOps) -> "BoolOp"
      [] h \in Range(BinOps) -> "BinOp"
      [] h \in Range(UnaryOps) -> "UnaryOp"
      [] OTHER -> "Compare"

\* The tree is a node of a family with one operator; RootOp is that operator.
RootIsOp ==
    /\ tree.kind \in Families
    /\ tree.kind = "Compare" => Len(tree.ops) = 1 /\ Len(tree.comparators) = 1
RootOp == IF tree.kind = "Compare" THEN tree.ops[1] ELSE tree.op

NamesKind(kind) == <<"No semantics specified for '", kind, "' nodes.">>

(***************************************************************************)
(* C1.  When the interpretation implements both a resolved sub-op handler  *)
(* and the handler of its family, a node of that sub-op is handled by the  *)
(* specific handler and the family handler is never invoked for that node, *)
(* whatever the specific handler does with its operand views.              *)
(***************************************************************************)
C1_GenericNeverInvoked ==
    out.op = "interpret" =>
        \A i \in HandlerEvents :
            (/\ Log[i].h \in SubOps
             /\ Implements(interp, Log[i].h)
             /\ Implements(interp, Family(Log[i].h)))
            => \A j \in HandlerEvents :
                   ~(Log[j].h = Family(Log[i].h) /\ Log[j].path = Log[i].path)

(***************************************************************************)
(* C2.  When the interpretation implements the family handler and not the  *)
(* resolved sub-op handler, the family handler is called next, for the     *)
(* same node, with the argument tuple (operand views and context) the      *)
(* specific handler was offered, and the fold of the node ends as that     *)
(* call of the family handler ends.                                        *)
(***************************************************************************)
C2_GenericFallback ==
    out.op = "interpret" =>
        /\ \A i \in HandlerEvents :
              (/\ Log[i].h \in SubOps
               /\ ~Implements(interp, Log[i].h)
               /\ Implements(interp, Family(Log[i].h)))
              => /\ i < Len(Log)
                 /\ Log[i + 1].ev = "handler"
                 /\ Log[i + 1].h = Family(Log[i].h)
                 /\ Log[i + 1].path = Log[i].path
                 /\ Log[i + 1].offered = Log[i].offered
                 /\ Log[i + 1].ctx = Log[i].ctx
        /\ (RootIsOp /\ ~Implements(interp, RootOp) /\ Implements(interp, tree.kind))
           => /\ Len(Log) >= 3
              /\ Log[2].ev = "handler" /\ Log[2].h = RootOp /\ Log[2].ctx = context
              /\ Log[3].ev = "handler" /\ Log[3].h = tree.kind
              /\ Len(Log[3].args) = Min(Len(Log[2].offered), interp.m[tree.kind].nargs - 1)
              /\ LET g == Attempt(interp, tree.kind, Log[2].offered, <<>>, <<>>)
                 IN  out.r.st = g.st /\ out.r.val = g.val /\ out.r.msg = g.msg

C2_Witness ==
    /\ out.op = "interpret"
    /\ RootIsOp /\ tree.kind = "Compare" /\ RootOp = "NotIn"
    /\ ~Implements(interp, RootOp) /\ Implements(interp, "Compare")
    /\ context = PyInt(0)
    /\ out.r.st = "ok"

(***************************************************************************)
(* C3.  If the interpretation omits the handler of the kind of the node    *)
(* folded, the fold fails with a SemanticError whose message names that    *)
(* kind; for a resolved sub-op with neither its handler nor its family's,  *)
(* the error names the specific sub-op and then the family.                *)
(***************************************************************************)
CatalogKinds ==
    {"Module", "FunctionDef", "Return", "Assign", "For", "While", "If", "Pass", "Break",
     "Continue", "Call", "Num", "Str", "Bytes", "Name", "List", "Tuple", "ListComp"}

C3_MissingHandlerNamed ==
    out.op = "interpret" =>
        /\ (tree.kind \in CatalogKinds /\ ~Implements(interp, tree.kind))
           => out.r.st = "SemanticError" /\ out.r.msg = NamesKind(tree.kind)
        /\ (RootIsOp /\ ~Implements(interp, RootOp) /\ ~Implements(interp, tree.kind))
           => /\ out.r.st = "SemanticError"
              /\ out.r.chain = <<NamesKind(RootOp)>>
              /\ out.r.msg = NamesKind(tree.kind)

(***************************************************************************)
(* C4.  Scenario 1: the size interpretation ASTSize folds the function     *)
(* whose body is `return 1 + 2` to 4: 1 for the return, 1 for the sum, 1   *)
(* for each literal.                                                       *)
(***************************************************************************)
C4_Scenario1 ==
    (/\ out.op \in {"interpret", "process"}
     /\ interp = ASTSize
     /\ tree \in {ThreeSource, ThreeSource.body[1]})
    => out.r.st = "ok" /\ out.r.val = PyInt(4)

(***************************************************************************)
(* C5.  A fold of a child happens only when post is called on a view of    *)
(* it: every call of interpret below the root follows a post call on the   *)
(* view of that child (or is the value of an Expr statement), every call   *)
(* of Statements follows a post call on the body's view, every post call   *)
(* is one the body of an invoked handler makes; and a handler that makes   *)
(* no post call returns with nothing of its children folded and no error,  *)
(* whatever the children are.                                              *)
(***************************************************************************)
Parent(path) == SubSeq(path, 1, Len(path) - 1)
Last(path) == path[Len(path)]

Triggered(x) ==
    LET e == Log[x] IN
    CASE e.ev = "interpret" /\ e.path # <<>> ->
            \E y \in 1..(x - 1) :
                \/ /\ Log[y].ev = "post" /\ Log[y].h \in {"interpret", "interprets"}
                   /\ Log[y].path = Parent(e.path)
                   /\ Log[y].offered[1].view.f = Last(e.path).f
                \/ /\ Log[y].ev = "interpret" /\ Log[y].h = "Expr"
                   /\ Log[y].path = Parent(e.path) /\ Last(e.path).f = "value"
      [] e.ev = "handler" /\ e.h = "Statements" ->
            \E y \in 1..(x - 1) :
                /\ Log[y].ev = "post" /\ Log[y].h = "statements"
                /\ Log[y].path = Parent(e.path)
                /\ Log[y].offered[1].view.f = Last(e.path).f
      [] e.ev = "handler" /\ e.h # "Statements" ->
            \E y \in 1..(x - 1) : Log[y].ev = "interpret" /\ Log[y].path = e.path
      [] e.ev = "post" ->
            \E y \in 1..(x - 1) :
                /\ Log[y].ev = "handler" /\ Implements(interp, Log[y].h)
                /\ \E j \in Range(interp.m[Log[y].h].posts) :
                      j <= Len(Log[y].args) /\ Log[y].args[j] = e.offered[1]
      [] OTHER -> TRUE

C5_PreOnlyFoldsNothing ==
    out.op = "interpret" =>
        /\ \A x \in 1..Len(Log) : Triggered(x)
        /\ (/\ Len(Log) >= 2
            /\ Log[2].ev = "handler" /\ Log[2].path = <<>>
            /\ Implements(interp, Log[2].h)
            /\ interp.m[Log[2].h].posts = <<>>)
           => out.r.st = "ok" /\ Len(Log) = 2

C5_Witness ==
    /\ out.op = "interpret"
    /\ tree = BinOp(Lambda, "Add", Name("x"))
    /\ ~Implements(interp, "Name")
    /\ Implements(interp, "Add") /\ interp.m["Add"].comb = "prelen"
    /\ out.r.st = "ok" /\ out.r.val = PyInt(1)
    /\ Len(Log) = 2

(***************************************************************************)
(* C6.  Requesting a name from the decorated function gives the result     *)
(* stored under that name by the interpretations applied so far; a name    *)
(* none of them stored gives the original function's own attribute of that *)
(* name if it has one, and fails with AttributeError otherwise.            *)
(***************************************************************************)
AppliedNames == {applied[i].name : i \in 1..Len(applied)}
LastApplied(name) ==
    applied[CHOOSE i \in 1..Len(applied) :
                /\ applied[i].name = name
                /\ \A j \in (i + 1)..Len(applied) : applied[j].name # name].val

C6_ResultsByName ==
    out.op = "getattr" =>
        IF out.attr \in AppliedNames
        THEN out.r.st = "ok" /\ out.r.val = LastApplied(out.attr)
        ELSE IF out.attr \in DOMAIN FunctionAttrs(orig.name)
        THEN out.r.st = "ok" /\ out.r.val = FunctionAttrs(orig.name)[out.attr]
        ELSE out.r.st = "AttributeError"

C6_Witness ==
    /\ out.op = "getattr"
    /\ AppliedNames = {"ASTSize"}
    /\ out.attr = "Ty"
    /\ orig.name = "correct"
    /\ out.r.st = "AttributeError"

(***************************************************************************)
(* C7.  Every result stored by an application of an interpretation is      *)
(* still retrieved under that interpretation's name, with the same value,  *)
(* from the object every later application returns.                        *)
(***************************************************************************)
C7_Monotone ==
    \A i \in 1..Len(applied) :
        /\ func.cls = "Function"
        /\ FunctionGetattr(func, applied[i].name).st = "ok"
        /\ FunctionGetattr(func, applied[i].name).val = applied[i].val

C7_Witness ==
    /\ Len(applied) = 3
    /\ applied[1].name = "ASTSize" /\ applied[2].name = "Ty" /\ applied[3].name = "ASTSize"

(***************************************************************************)
(* C8.  What an interpretation stores when applied to a function already   *)
(* decorated is what it stores when applied to the bare original function: *)
(* it folds the tree parsed from the original function's source, which no  *)
(* fold changes.                                                           *)
(***************************************************************************)
StoredBy(r) == IF r.st = "ok" THEN [r EXCEPT !.val = @._interpretations[interp.name]] ELSE r

C8_Independent ==
    out.op = "process" =>
        /\ source = Sources
        /\ tree = Sources[orig.name]
        /\ out.r = StoredBy(Process(interp, orig, Sources))
        /\ out.r.st = "ok" =>
              func._interpretations[interp.name] = out.r.val /\ func._func = orig

C8_Witness ==
    /\ out.op = "process" /\ out.r.st = "ok"
    /\ Len(applied) = 2
    /\ applied[1].name = "ASTSize" /\ applied[2].name = "Ty"

(***************************************************************************)
(* C9.  Calling the decorated function, after any number of applications,  *)
(* passes the positional and keyword arguments to the original function    *)
(* and returns (or raises) what it does.                                   *)
(***************************************************************************)
C9_CallDelegates ==
    out.op = "call" => out.r = CallFunction(orig, out.args, out.kwargs)

C9_Witness ==
    /\ out.op = "call"
    /\ Len(applied) = 2
    /\ out.args = <<1>> /\ DOMAIN out.kwargs = {"y"}
    /\ out.r.st = "ok" /\ out.r.val = PyInt(6)

(***************************************************************************)
(* C10.  Arity adaptation: a handler offered k children followed by the    *)
(* context and declaring n <= k + 1 parameters is called with exactly the  *)
(* first n of them; the context is passed only as the (k+1)-th argument,   *)
(* to a handler declaring k + 1 parameters, and a handler declaring fewer  *)
(* receives children only.                                                 *)
(***************************************************************************)
C10_ArityAdaptation ==
    out.op = "interpret" =>
        \A i \in HandlerEvents :
            LET e == Log[i]
                n == interp.m[e.h].nargs - 1
                k == Len(e.offered) - 1
            IN  /\ e.offered[k + 1].a = "ctx"
                /\ \A j \in 1..k : e.offered[j].a # "ctx"
                /\ n <= k + 1 =>
                     /\ Len(e.args) = n
                     /\ \A j \in 1..n : e.args[j] = e.offered[j]
                     /\ n = k + 1 => e.args[n] = CtxArg(e.ctx)
                     /\ n <= k => \A j \in 1..n : e.args[j].a # "ctx"

C10_Witness ==
    /\ out.op = "interpret"
    /\ tree.kind = "For" /\ context = PyInt(0)
    /\ Len(Log) >= 2 /\ Log[2].ev = "handler" /\ Log[2].h = "For"
    /\ Len(Log[2].offered) = 5 /\ Len(Log[2].args) = 2
    /\ out.r.st = "ok"

(***************************************************************************)
(* C11.  When a fold calls the Statements handler and the interpretation   *)
(* does not implement it, the fold fails with the SemanticError whose      *)
(* message is "No semantics specified for statement sequences.", not one   *)
(* of the form "No semantics specified for '<kind>' nodes.".               *)
(***************************************************************************)
SequenceMissingMsg == <<"No semantics specified for statement sequences.">>

StatementsReached ==
    \E i \in HandlerEvents : Log[i].h = "Statements" /\ ~Implements(interp, "Statements")

C11_SequenceErrorDistinguished ==
    (out.op = "interpret" /\ StatementsReached)
    => out.r.st = "SemanticError" /\ out.r.msg = SequenceMissingMsg

(***************************************************************************)
(* The nodes of a tree.                                                    *)
(***************************************************************************)
\* The node classes interpret has a branch for.
NodeKinds ==
    {"Module", "FunctionDef", "Return", "Assign", "For", "While", "If", "Expr", "Pass",
     "Break", "Continue", "BoolOp", "BinOp", "UnaryOp", "Set", "Compare", "Call", "Num",
     "Str", "Bytes", "NameConstant", "Name", "List", "Tuple", "ListComp"}

RECURSIVE Flatten(_)
Flatten(seqs) == IF seqs = <<>> THEN <<>> ELSE Head(seqs) \o Flatten(Tail(seqs))

Children(a) ==
    CASE a.kind \in {"Module", "FunctionDef"} -> a.body
      [] a.kind \in {"Return", "Expr"} -> <<a.value>>
      [] a.kind = "Assign" -> a.targets \o <<a.value>>
      [] a.kind = "For" -> <<a.target, a.iter>> \o a.body \o a.orelse
      [] a.kind \in {"While", "If"} -> <<a.test>> \o a.body \o a.orelse
      [] a.kind = "BoolOp" -> a.values
      [] a.kind = "BinOp" -> <<a.left, a.right>>
      [] a.kind = "UnaryOp" -> <<a.operand>>
      [] a.kind \in {"Set", "List", "Tuple"} -> a.elts
      [] a.kind = "Compare" -> <<a.left>> \o a.comparators
      [] a.kind = "Call" -> <<a.func>> \o a.args
      [] a.kind = "ListComp" ->
            <<a.elt>> \o Flatten([i \in 1..Len(a.generators) |->
                                     <<a.generators[i].target, a.generators[i].iter>>
                                     \o a.generators[i].ifs])
      [] OTHER -> <<>>

RECURSIVE Kinds(_)
Kinds(a) == {a.kind} \cup UNION {Kinds(Children(a)[i]) : i \in 1..Len(Children(a))}

(***************************************************************************)
(* C12 as stated.  A tree containing a node of a class interpret has no    *)
(* branch for always fails the fold with the PydrogenError naming that     *)
(* class, for every interpretation and every position of the node.         *)
(***************************************************************************)
C12_UnrecognizedAlwaysFails ==
    (out.op = "interpret" /\ ~(Kinds(tree) \subseteq NodeKinds))
    => /\ out.r.st = "PydrogenError"
       /\ out.r.msg = <<"Pydrogen does not currently support nodes of this type: ", "Lambda">>

(***************************************************************************)
(* C12, amended.  Whenever interpret is called on a node of a class it has *)
(* no branch for, at any position and under any interpretation, the fold   *)
(* fails with the PydrogenError naming that class, and that call of        *)
(* interpret is the last call of the fold: no handler is invoked for the   *)
(* node and nothing is retried.  A node no post call reaches is not        *)
(* interpreted and does not fail the fold.                                 *)
(***************************************************************************)
C12_UnrecognizedFailsWhenInterpreted ==
    out.op = "interpret" =>
        \A x \in 1..Len(Log) :
            (Log[x].ev = "interpret" /\ Log[x].h \notin NodeKinds)
            => /\ x = Len(Log)
               /\ out.r.st = "PydrogenError"
               /\ out.r.msg = <<"Pydrogen does not currently support nodes of this type: ",
                                Log[x].h>>

C12_Witness ==
    /\ out.op = "interpret"
    /\ tree = BinOp(Lambda, "Add", Name("x"))
    /\ Implements(interp, "Add") /\ interp.m["Add"].posts = <<1, 2>>
    /\ Len(Log) = 4
    /\ Log[4].ev = "interpret" /\ Log[4].h = "Lambda" /\ Len(Log[4].path) = 1
    /\ out.r.st = "PydrogenError"

(***************************************************************************)
(* C13.  Interpreting a comparison with more than one operator or more     *)
(* than one comparator fails with the PydrogenError for chained            *)
(* comparisons and makes no other call: no handler is invoked, no operand  *)
(* folded, whatever the interpretation implements.  A comparison with one  *)
(* operator and one comparator is offered first to the handler of that     *)
(* operator, with the views of the left operand and of the comparator,     *)
(* then the context.                                                       *)
(***************************************************************************)
C13_ChainedCompare ==
    (out.op = "interpret" /\ tree.kind = "Compare") =>
        IF Len(tree.ops) > 1 \/ Len(tree.comparators) > 1
        THEN /\ out.r.st = "PydrogenError"
             /\ out.r.msg = <<"Pydrogen does not currently support expressions with chained comparison operations.">>
             /\ Len(Log) = 1
        ELSE /\ Len(Log) >= 2
             /\ Log[2].ev = "handler" /\ Log[2].h = tree.ops[1] /\ Log[2].path = <<>>
             /\ Len(Log[2].offered) = 3
             /\ Log[2].offered[1].a = "view" /\ Log[2].offered[2].a = "view"
             /\ Pre(Log[2].offered[1].view) = <<tree.left>>
             /\ Pre(Log[2].offered[2].view) = <<tree.comparators[1]>>
             /\ Log[2].offered[1].view.post = "interpret"
             /\ Log[2].offered[2].view.post = "interpret"
             /\ Log[2].offered[3] = CtxArg(context)

C13_Witness ==
    /\ out.op = "interpret"
    /\ tree = Compare(Num(1), <<"Lt", "Lt">>, <<Lambda, Num(1)>>)
    /\ Implements(interp, "Lt") /\ Implements(interp, "Compare")
    /\ out.r.st = "PydrogenError"
    /\ Len(Log) = 1

(***************************************************************************)
(* C14.  If the interpretation implements a handler for the kind of every  *)
(* node of the tree (for an operator node the handler of the operator or   *)
(* of its family, for a node with a body also Statements), the tree has no *)
(* node outside the catalog and no chained comparison, then the fold       *)
(* returns a result and raises no error: none of the engine's errors,      *)
(* SemanticError and PydrogenError (the errors the body of a handler       *)
(* raises on its own, such as an index into an empty list, are the         *)
(* interpretation's).                                                      *)
(***************************************************************************)
RECURSIVE Nodes(_)
Nodes(a) == {a} \cup UNION {Nodes(Children(a)[i]) : i \in 1..Len(Children(a))}

Handled(I, n) ==
    CASE n.kind \in {"BoolOp", "BinOp", "UnaryOp"} -> Implements(I, n.op) \/ Implements(I, n.kind)
      [] n.kind = "Compare" ->
            ~IsChained(n) /\ (Implements(I, n.ops[1]) \/ Implements(I, "Compare"))
      [] n.kind = "NameConstant" ->
            Implements(I, NameConstantHandler(n)) \/ Implements(I, "NameConstant")
      [] n.kind = "Expr" -> TRUE
      [] n.kind \in {"Module", "FunctionDef", "For", "While", "If"} ->
            Implements(I, n.kind) /\ Implements(I, "Statements")
      [] OTHER -> n.kind \in NodeKinds /\ Implements(I, n.kind)

Covers(I, T) == \A n \in Nodes(T) : Handled(I, n)

C14_CoveredFoldSucceeds ==
    (out.op = "interpret" /\ Covers(interp, tree))
    => out.r.st \notin {"SemanticError", "PydrogenError"}

(***************************************************************************)
(* C15.  Context flows in sibling order.  Under the interpretation Counter *)
(* (Assign returns (result, context + 1); Statements and For pass their    *)
(* context to post), folding a For node whose body is n assignments from   *)
(* the integer context c calls post on the body once, interprets each      *)
(* statement of the body exactly once, in order, statement i with context  *)
(* c + i - 1, and the body's fold, which the For handler returns, has n    *)
(* results and the final context c + n.                                    *)
(***************************************************************************)
BodyPath(i) == ChildPath(<<>>, "body", i)
CallsOn(path) == {x \in 1..Len(Log) : Log[x].ev = "interpret" /\ Log[x].path = path}
BodyPosts ==
    {x \in 1..Len(Log) : /\ Log[x].ev = "post" /\ Log[x].h = "statements"
                         /\ Log[x].path = <<>> /\ Log[x].offered[1].view.f = "body"}
CounterCase ==
    /\ out.op = "interpret" /\ interp = Counter
    /\ tree.kind = "For" /\ context.t = "int"
    /\ \A i \in 1..Len(tree.body) : tree.body[i].kind = "Assign"

C15_ContextInSiblingOrder ==
    CounterCase =>
        /\ Cardinality(BodyPosts) = 1
        /\ \A i \in 1..Len(tree.body) :
              /\ Cardinality(CallsOn(BodyPath(i))) = 1
              /\ \A x \in CallsOn(BodyPath(i)) :
                    /\ Log[x].ctx = PyInt(context.n + i - 1)
                    /\ i > 1 => \A y \in CallsOn(BodyPath(i - 1)) : y < x
        /\ Kinds(tree) \subseteq NodeKinds =>
              /\ out.r.st = "ok"
              /\ out.r.val.t = "tuple"
              /\ Len(out.r.val.items[1].items) = Len(tree.body)
              /\ out.r.val.items[2] = PyInt(context.n + Len(tree.body))

C15_Witness ==
    /\ CounterCase
    /\ tree = Scenario3 /\ context = PyInt(0)
    /\ out.r.st = "ok"
    /\ out.r.val = PyTuple(<<PyList(<<PyInt(4)>>), PyInt(1)>>)

(***************************************************************************)
(* C16.  post is not memoized.  Every call of post on a view runs the fold *)
(* of the view anew: it is followed at once by the call of interpret on    *)
(* the child (of Statements for a body) with the context given to post, so *)
(* the child is interpreted as many times as post was called on its view.  *)
(* A handler that calls post twice on one view gets two equal results: the *)
(* UnaryOp handler of Twice, 1 + e.post() + e.post(), returns 1 + 2v where *)
(* v is the fold of the operand.  A failure of the child's fold surfaces   *)
(* at the call of post, the first one, and ends the fold.                  *)
(***************************************************************************)
PostsOn(view) == {y \in 1..Len(Log) : Log[y].ev = "post" /\ Log[y].offered[1].view = view}

Recomputes(y) ==
    LET view == Log[y].offered[1].view IN
    CASE view.post = "interpret" \/ (view.post = "interprets" /\ view.nodes # <<>>) ->
            /\ y < Len(Log)
            /\ Log[y + 1].ev = "interpret"
            /\ Log[y + 1].path = ChildPath(view.p, view.f, 1)
            /\ Log[y + 1].ctx = Log[y].ctx
            /\ view.post = "interpret" =>
                  Cardinality(CallsOn(ChildPath(view.p, view.f, 1))) = Cardinality(PostsOn(view))
      [] view.post = "statements" ->
            /\ y < Len(Log)
            /\ Log[y + 1].ev = "handler" /\ Log[y + 1].h = "Statements"
            /\ Log[y + 1].path = ChildPath(view.p, view.f, 0)
            /\ Log[y + 1].ctx = Log[y].ctx
      [] OTHER -> TRUE

TwiceCase == out.op = "interpret" /\ interp = Twice /\ tree.kind = "UnaryOp"

OperandFold == Interpret(interp, tree.operand, PyNone, ChildPath(<<>>, "operand", 1))

C16_PostRecomputes ==
    /\ out.op = "interpret" => \A y \in 1..Len(Log) : Log[y].ev = "post" => Recomputes(y)
    /\ TwiceCase =>
          IF OperandFold.st = "ok"
          THEN /\ Cardinality(CallsOn(ChildPath(<<>>, "operand", 1))) = 2
               /\ out.r.st = "ok"
               /\ out.r.val = PyInt(1 + OperandFold.val.n + OperandFold.val.n)
          ELSE /\ Cardinality(CallsOn(ChildPath(<<>>, "operand", 1))) = 1
               /\ out.r.st = OperandFold.st /\ out.r.msg = OperandFold.msg
               /\ Log[Len(Log)] = OperandFold.log[Len(OperandFold.log)]

C16_Witness ==
    /\ TwiceCase
    /\ tree = UnaryOp("USub", UnaryOp("USub", Num(1)))
    /\ out.r.st = "ok" /\ out.r.val = PyInt(7)
    /\ Cardinality(CallsOn(ChildPath(<<>>, "operand", 1))) = 2

(***************************************************************************)
(* C17.  No error is swallowed but by the documented fallback.  When a     *)
(* call of a handler raises SemanticError because the interpretation does  *)
(* not implement it, and this is not the case of a sub-op handler whose    *)
(* family handler the interpretation implements, the fold fails with a     *)
(* SemanticError and makes no further call, but for the call of the        *)
(* family handler (itself not implemented) for the same node: in           *)
(* particular the error of an operand's fold inside an implemented sub-op  *)
(* handler does not make the family handler run.                           *)
(***************************************************************************)
FamilyOf(h) ==
    IF h \in {"True_", "False_", "None_"} THEN "NameConstant"
    ELSE IF h \in SubOps THEN Family(h) ELSE ""

Fallback(i) ==
    /\ FamilyOf(Log[i].h) # ""
    /\ i < Len(Log)
    /\ Log[i + 1].ev = "handler" /\ Log[i + 1].h = FamilyOf(Log[i].h)
    /\ Log[i + 1].path = Log[i].path

C17_NoErrorSwallowed ==
    out.op = "interpret" =>
        \A i \in HandlerEvents :
            (/\ ~Implements(interp, Log[i].h)
             /\ ~(FamilyOf(Log[i].h) # "" /\ Implements(interp, FamilyOf(Log[i].h))))
            => /\ out.r.st = "SemanticError"
               /\ \/ i = Len(Log)
                  \/ Fallback(i) /\ i + 1 = Len(Log)

(***************************************************************************)
(* C18.  The engine does not thread context between siblings on its own:   *)
(* when post is called with context c on the view of a list of children    *)
(* (a body, call arguments, elements, bool-op operands), interpret is      *)
(* called on every child of the list with that same c.                     *)
(***************************************************************************)
ListPosts == {y \in 1..Len(Log) : Log[y].ev = "post" /\ Log[y].h = "interprets"}

\* The calls of interpret, on the children of the view of post call y, made
\* by that post call: those before the next post call on the same view.
ChildCalls(y) ==
    {x \in (y + 1)..Len(Log) :
        /\ Log[x].ev = "interpret"
        /\ \E i \in 1..Len(Log[y].offered[1].view.nodes) :
              Log[x].path = ChildPath(Log[y].path, Log[y].offered[1].view.f, i)
        /\ \A z \in (y + 1)..(x - 1) :
              ~(Log[z].ev = "post" /\ Log[z].offered = Log[y].offered)}

C18_NoThreadingBetweenSiblings ==
    out.op = "interpret" =>
        \A y \in ListPosts : \A x \in ChildCalls(y) : Log[x].ctx = Log[y].ctx

(***************************************************************************)
(* C19.  The branches of an if, for or while node are folded               *)
(* independently.  Every call of post by the handler of such a node on one *)
(* of its views (body, orelse) carries the context the handler passes, its *)
(* own here, whatever an earlier view's fold returned; the calls that      *)
(* follow it and the value it returns are those of the fold of that view   *)
(* alone from that context; and the handler receives the branches' results *)
(* side by side, their contexts never combined.                            *)
(***************************************************************************)
BranchKinds == {"If", "For", "While"}

\* The calls of post by the root's handler on the root's views (test or
\* iter, body, orelse), in order.
RootPosts ==
    SelectSeq([y \in 1..Len(Log) |-> y],
              LAMBDA y : /\ Log[y].ev = "post" /\ Log[y].path = <<>>
                         /\ Log[y].h \in {"interpret", "statements"})

\* The call of the root's handler.
RootHandler == CHOOSE x \in HandlerEvents : Log[x].path = <<>>

\* The fold of the view of post call y alone, from the context of the call.
Alone(y) == Post(interp, Log[y].offered[1].view, Log[y].ctx)

BranchCase ==
    /\ out.op = "interpret" /\ tree.kind \in BranchKinds
    /\ Implements(interp, tree.kind)

Returning ==
    LET calls == {x \in HandlerEvents : Log[x].path = <<>>}
    IN  CHOOSE x \in calls : \A z \in calls : z <= x

\* The root's handler is `return v.post()` on its first parameter, a view.
PassesOn ==
    /\ out.op = "interpret" /\ out.r.st = "ok"
    /\ \E x \in HandlerEvents : Log[x].path = <<>>
    /\ LET f == interp.m[Log[Returning].h]
       IN  /\ f.impl /\ f.comb = "pass" /\ ~f.pctx /\ f.posts = <<1>>
           /\ Log[Returning].args # <<>>
           /\ Log[Returning].args[1].a = "view"
           /\ Log[Returning].args[1].view.post \in {"interpret", "interprets"}

\* What the handler of the i-th child of view v returns, the child folded
\* without context.
ChildValue(v, i) == Interpret(interp, v.nodes[i], PyNone, ChildPath(v.p, v.f, i)).val

C20_NoShapeImposed ==
    PassesOn =>
        LET v == Log[Returning].args[1].view
        IN  out.r.val = IF v.post = "interpret" THEN ChildValue(v, 1)
                        ELSE PyList([i \in 1..Len(v.nodes) |-> ChildValue(v, i)])
====
